---- MODULE Spec2Model ----
(***************************************************************************)
(* Model of the Adminis Locuinte API client (api.py): the cookie login     *)
(* handshake, dashboard location discovery, the per-location endpoint      *)
(* fetches and the aggregation of a poll into a Snapshot; with them the   *)
(* coordinator's repeated refresh (__init__.py) and the values the         *)
(* per-location sensors show (sensor.py).                                  *)
(*                                                                         *)
(* One client object is modelled.  Its coroutines run one at a time; a     *)
(* state of the model is the client between two awaits: pc names the       *)
(* request that is in flight ("idle" when no call is running), and every   *)
(* action consumes the response of that request and runs the code up to    *)
(* the next request or to the return of the call.                          *)
(***************************************************************************)
EXTENDS Integers, Sequences, FiniteSets, TLC

VARIABLES
    cookies,          \* self._cookies: dict name -> value
    authenticated,    \* self._authenticated
    location_ids,     \* self._location_ids: list of ids
    location_info,    \* self._location_info: dict id -> details
    pc,               \* request in flight, or "idle"
    call,             \* public coroutine that is running (or ran last)
    arg,              \* get_payment_history's location_id argument
    idx,              \* position of the for loop over the locations
    location_data,    \* get_data local: dict of the location being fetched
    locations_data,   \* get_data local: dict id -> location_data
    last_payment,     \* get_data local
    all_payments,     \* get_payment_history local
    result,           \* how the last call ended and what it returned
    log,              \* requests answered during the running (last) call
    prev,             \* the refresh before the running one: what it returned,
                      \* the requests it had answered, the flag at its return
    setup             \* __init__.py: where async_setup_entry stands

session == <<cookies, authenticated>>
locs    == <<location_ids, location_info>>
locals  == <<idx, location_data, locations_data, last_payment, all_payments>>
vars    == <<cookies, authenticated, location_ids, location_info, pc, call, arg,
             idx, location_data, locations_data, last_payment, all_payments,
             result, log, prev, setup>>

(***************************************************************************)
(* Bounds of the model.                                                    *)
(***************************************************************************)
\* longest run of data-code blocks in a dashboard page
MaxMatches == 2
\* longest run of data-code blocks in the pages of the scan specification
MaxScan == 3

(***************************************************************************)
(* Python / JSON values.  Every value carries its type in t, so that the   *)
(* type errors of the code (AttributeError, TypeError, ValueError) can be  *)
(* computed.                                                               *)
(***************************************************************************)
None == [t |-> "None"]
JStr(s) == [t |-> "str", s |-> s]
JInt(n) == [t |-> "int", n |-> n]
JFloat(c) == [t |-> "float", cents |-> c]
JList(items) == [t |-> "list", items |-> items]
JDict(d) == [t |-> "dict", d |-> d]
\* A date text DD.MM.YYYY is a str; its characters are kept as the three
\* numbers they spell, in the order they are written.
JDate(dd, mm, yyyy) == [t |-> "str", dmy |-> <<dd, mm, yyyy>>]
\* a response body that is not JSON
Invalid == [t |-> "invalid"]

\* dict.update(other)
DictUpdate(d, other) ==
    [k \in DOMAIN d \cup DOMAIN other |->
        IF k \in DOMAIN other THEN other[k] ELSE d[k]]

\* d[k] = v
DictSet(d, k, v) == DictUpdate(d, [x \in {k} |-> v])

\* dict.get(key, default) of a value known to be a dict
DictGet(v, k, default) == IF k \in DOMAIN v.d THEN v.d[k] ELSE default

\* bool(v)
Truthy(v) ==
    CASE v.t = "None" -> FALSE
      [] v.t = "dict" -> DOMAIN v.d # {}
      [] v.t = "list" -> Len(v.items) > 0
      [] v.t = "str" -> v # JStr("")
      [] v.t = "int" -> v.n # 0
      [] v.t = "float" -> v.cents # 0
      [] OTHER -> TRUE

(***************************************************************************)
(* Text.  A location label is the sequence of its characters, so that the  *)
(* substring tests and splits of _extract_location_ids are computed.       *)
(***************************************************************************)
\* the delimiter ", ap. " and the marker "PARCARI"
ApDelimiter == <<",", " ", "a", "p", ".", " ">>
ParkingMarker == <<"P", "A", "R", "C", "A", "R", "I">>

\* str.find: the first position >= from where pat occurs in s, 0 when none
Find(s, pat, from) ==
    LET hits == {i \in from..(Len(s) - Len(pat) + 1) :
                    SubSeq(s, i, i + Len(pat) - 1) = pat}
    IN  IF hits = {} THEN 0 ELSE CHOOSE i \in hits : \A j \in hits : i <= j

\* pat in s
Contains(s, pat) == Find(s, pat, 1) # 0

\* s.startswith(pat)
StartsWith(s, pat) == Len(s) >= Len(pat) /\ SubSeq(s, 1, Len(pat)) = pat

\* s.split(pat)[0]
SplitFirst(s, pat) ==
    LET i == Find(s, pat, 1)
    IN  IF i = 0 THEN s ELSE SubSeq(s, 1, i - 1)

\* s.split(pat)[1], for s that contains pat
SplitSecond(s, pat) ==
    LET i == Find(s, pat, 1)
    IN  SplitFirst(SubSeq(s, i + Len(pat), Len(s)), pat)

\* s.strip()
RECURSIVE LStrip(_)
LStrip(s) == IF s # <<>> /\ Head(s) = " " THEN LStrip(Tail(s)) ELSE s
RECURSIVE RStrip(_)
RStrip(s) ==
    IF s # <<>> /\ s[Len(s)] = " " THEN RStrip(SubSeq(s, 1, Len(s) - 1)) ELSE s
Strip(s) == RStrip(LStrip(s))

(***************************************************************************)
(* _extract_location_ids, lines 113-151: the parse of a dashboard page     *)
(* that was fetched with status 200.  A page is the sequence of its        *)
(* data-code blocks [code, label] and its data-assoc value ("" when the    *)
(* attribute is absent).                                                   *)
(***************************************************************************)
LocationIds == {"16835", "17012"}

\* \d+ : the codes that are digits only are the portal's location ids
IsDigits(code) == code \in LocationIds

\* re.findall(r'data-code="(\d+)"[^>]*>([^<]+)<', html)
Matches(html) ==
    SelectSeq(html.blocks, LAMBDA b : IsDigits(b.code) /\ b.label # <<>>)

\* lines 124-139: the details recorded for one new location
LocationDetails(loc_id, loc_name) ==
    IF Contains(loc_name, ApDelimiter)
    THEN LET apt == SplitFirst(SplitSecond(loc_name, ApDelimiter), <<",">>)
         IN  [name |-> Strip(loc_name), id |-> loc_id,
              apartment |-> apt,
              type |-> IF Contains(loc_name, ParkingMarker)
                          \/ StartsWith(apt, <<"S">>)
                       THEN "parking" ELSE "apartment"]
    ELSE [name |-> Strip(loc_name), id |-> loc_id, type |-> "unknown"]

\* lines 118-139 without the membership test of line 120
RECURSIVE ScanMatchesNoDedup(_, _, _)
ScanMatchesNoDedup(matches, ids, info) ==
    IF matches = <<>> THEN [ids |-> ids, info |-> info]
    ELSE LET m == Head(matches)
         IN  ScanMatchesNoDedup(Tail(matches), Append(ids, m.code),
                  DictSet(info, m.code, LocationDetails(m.code, m.label)))

\* lines 118-139 with a repeated id moved to the end of the list
RECURSIVE ScanMatchesLastSeen(_, _, _)
ScanMatchesLastSeen(matches, ids, info) ==
    IF matches = <<>> THEN [ids |-> ids, info |-> info]
    ELSE LET m == Head(matches)
             others == SelectSeq(ids, LAMBDA x : x # m.code)
         IN  ScanMatchesLastSeen(Tail(matches), Append(others, m.code),
                  DictSet(info, m.code, LocationDetails(m.code, m.label)))

\* lines 118-139: the loop over the matches; ids is the local location_ids,
\* info is self._location_info
RECURSIVE ScanMatches(_, _, _)
ScanMatches(matches, ids, info) ==
    IF matches = <<>> THEN [ids |-> ids, info |-> info]
    ELSE LET m == Head(matches)
             seen == \E i \in 1..Len(ids) : ids[i] = m.code
         IN  IF seen
             THEN ScanMatches(Tail(matches), ids, info)
             ELSE ScanMatches(Tail(matches), Append(ids, m.code),
                      DictSet(info, m.code, LocationDetails(m.code, m.label)))

\* lines 141-147: the association id, attached to every location found
AttachAssociation(html, ids, info) ==
    IF html.assoc = "" THEN info
    ELSE [k \in DOMAIN info |->
            IF \E i \in 1..Len(ids) : ids[i] = k
            THEN DictSet(info[k], "association_id", html.assoc)
            ELSE info[k]]

\* lines 105-157 with a failed dashboard request raised to the caller
ExtractLocationIdsRaising(resp, info) ==
    IF resp.ok /\ resp.status = 200
    THEN LET scan == ScanMatches(Matches(resp.html), <<>>, info)
         IN  [ids |-> scan.ids,
              info |-> AttachAssociation(resp.html, scan.ids, scan.info),
              raised |-> FALSE]
    ELSE [ids |-> <<>>, info |-> info, raised |-> TRUE]

\* _extract_location_ids, lines 105-157, given the dashboard response: the
\* list returned and self._location_info afterwards.  It has no raising exit:
\* a transport error is caught (155-157), another status returns [] (152-154).
ExtractLocationIds(resp, info) ==
    IF resp.ok /\ resp.status = 200
    THEN LET scan == ScanMatches(Matches(resp.html), <<>>, info)
         IN  [ids |-> scan.ids,
              info |-> AttachAssociation(resp.html, scan.ids, scan.info),
              raised |-> FALSE]
    ELSE [ids |-> <<>>, info |-> info, raised |-> FALSE]

(***************************************************************************)
(* The endpoint fetchers and what get_data does with their results.        *)
(* A response is [ok, status, body]: ok is FALSE when the request itself   *)
(* raised (no response), body is the parsed JSON or Invalid.               *)
(***************************************************************************)
\* lines 284-287, 323-326, 332-335: return await response.json() on 200,
\* raise otherwise; response.json() raises on a body that is not JSON
FetchJson(resp) ==
    IF resp.ok /\ resp.status = 200 /\ resp.body # Invalid
    THEN [raised |-> FALSE, value |-> resp.body]
    ELSE [raised |-> TRUE, value |-> None]

FetchPendingPayments(resp) == FetchJson(resp)
FetchPaymentHistory(resp) == FetchJson(resp)
FetchCounters(resp) == FetchJson(resp)

\* the texts float() accepts, with the number they spell (in hundredths)
FloatOfText ==
    [s \in {"862.12", "120.50", "0"} |->
        CASE s = "862.12" -> 86212 [] s = "120.50" -> 12050 [] OTHER -> 0]

\* float(v)
PyFloat(v) ==
    CASE v.t = "int" -> [raised |-> FALSE, value |-> JFloat(100 * v.n)]
      [] v.t = "float" -> [raised |-> FALSE, value |-> v]
      [] v.t = "str" /\ "s" \in DOMAIN v /\ v.s \in DOMAIN FloatOfText ->
            [raised |-> FALSE, value |-> JFloat(FloatOfText[v.s])]
      [] OTHER -> [raised |-> TRUE, value |-> None]

\* lines 214-227: location_data["pending_payments"]
PendingField(resp) ==
    LET f == FetchPendingPayments(resp)
        pending_payments == f.value
    IN  IF f.raised THEN None
        ELSE IF pending_payments.t # "dict" THEN None        \* .get: AttributeError
        ELSE LET results == DictGet(pending_payments, "results", None)
             IN  IF Truthy(results) /\ results.t # "dict"
                 THEN None                                    \* .get: AttributeError
                 ELSE pending_payments

\* lines 230-245: location_data["payment_history"] and last_payment after the
\* payment-history step of one location.  Every exception raised between the
\* try and the except leaves None in the field.
HistoryStep(resp, lp, location_id) ==
    LET f == FetchPaymentHistory(resp)
        payment_history == f.value
        failed == [last_payment |-> lp, field |-> None]
        kept == [last_payment |-> lp, field |-> payment_history]
    IN  IF f.raised THEN failed
        ELSE IF payment_history.t # "dict" THEN failed        \* .get: AttributeError
        ELSE LET results == DictGet(payment_history, "results", None)
             IN  IF ~Truthy(results) THEN kept
                 ELSE IF results.t \notin {"list", "str"}
                 THEN failed                  \* len(): TypeError, [0]: KeyError
                 ELSE LET latest == IF results.t = "list" THEN results.items[1]
                                    ELSE results              \* a str of one character
                      IN  IF lp # None THEN kept
                          ELSE IF latest.t # "dict" THEN failed   \* .get: AttributeError
                          ELSE LET amount == PyFloat(DictGet(latest, "amount", JInt(0)))
                               IN  IF amount.raised THEN failed
                                   ELSE [last_payment |->
                                           [location_id |-> location_id,
                                            amount |-> amount.value,
                                            date |-> DictGet(latest, "date", JStr(""))],
                                         field |-> payment_history]

\* lines 248-256: location_data["counters"]
CountersField(resp) ==
    LET f == FetchCounters(resp)
    IN  IF f.raised THEN None ELSE f.value

\* lines 197-201 reading self._location_info as it was before the request
\* in flight was answered
StartLocationStale(location_id, info) ==
    IF location_id \in DOMAIN location_info
    THEN [info |-> location_info[location_id]] ELSE <<>>

\* lines 197-201: the location_data a location starts with
StartLocation(location_id, info) ==
    IF location_id \in DOMAIN info THEN [info |-> info[location_id]] ELSE <<>>

\* line 193: total_pending, which no statement of the loop changes
TotalPending == JFloat(0)

\* lines 261-274: the summary and the Snapshot returned
Snapshot(ids, data, lp) ==
    [locations |-> data,
     summary |->
        IF lp # None
        THEN [total_pending |-> TotalPending, location_count |-> Len(ids),
              last_payment_amount |-> lp.amount,
              last_payment_date |-> lp.date,
              last_payment_location_id |-> lp.location_id]
        ELSE [total_pending |-> TotalPending, location_count |-> Len(ids)]]

\* line 189 without the location count
EmptySnapshotNoCount ==
    [locations |-> <<>>, summary |-> [total_pending |-> TotalPending]]

\* line 189
EmptySnapshot ==
    [locations |-> <<>>,
     summary |-> [total_pending |-> TotalPending, location_count |-> 0]]

(***************************************************************************)
(* get_payment_history, lines 372-388.                                     *)
(***************************************************************************)
\* lines 380-382: tag and append the payments of one location, up to the
\* first one that is not a dict (TypeError, caught at 383)
RECURSIVE TagPayments(_, _, _)
TagPayments(items, loc_id, acc) ==
    IF items = <<>> \/ Head(items).t # "dict" THEN acc
    ELSE TagPayments(Tail(items), loc_id,
             Append(acc, JDict(DictSet(Head(items).d, "location_id", JStr(loc_id)))))

\* lines 376-384: all_payments after the fetch of one location
HistoryPayments(resp, loc_id, acc) ==
    LET f == FetchPaymentHistory(resp)
        history == f.value
    IN  IF f.raised \/ history.t # "dict" THEN acc
        ELSE LET results == DictGet(history, "results", None)
             IN  IF Truthy(results) /\ results.t = "list"
                 THEN TagPayments(results.items, loc_id, acc)
                 ELSE acc

\* the sort key of line 387
DateKey(payment) == DictGet(payment, "date", JStr(""))

\* a < b for two str keys: the order of their characters.  A date text
\* DD.MM.YYYY compares by DD, then MM, then YYYY.
StrLess(a, b) ==
    IF a = JStr("") THEN b # JStr("")
    ELSE IF b = JStr("") THEN FALSE
    ELSE \/ a.dmy[1] < b.dmy[1]
         \/ a.dmy[1] = b.dmy[1] /\ a.dmy[2] < b.dmy[2]
         \/ a.dmy[1] = b.dmy[1] /\ a.dmy[2] = b.dmy[2] /\ a.dmy[3] < b.dmy[3]

\* the place of x in a list sorted most-recent-key first: behind every
\* element whose key is not smaller (the sort is stable)
InsertDescending(sorted, x) ==
    LET smaller == {i \in 1..Len(sorted) : StrLess(DateKey(sorted[i]), DateKey(x))}
        at == IF smaller = {} THEN Len(sorted) + 1
              ELSE CHOOSE i \in smaller : \A j \in smaller : i <= j
    IN  SubSeq(sorted, 1, at - 1) \o <<x>> \o SubSeq(sorted, at, Len(sorted))

RECURSIVE SortDescending(_, _)
SortDescending(payments, sorted) ==
    IF payments = <<>> THEN sorted
    ELSE SortDescending(Tail(payments), InsertDescending(sorted, Head(payments)))

\* line 387: all_payments.sort(key=..., reverse=True); comparing two keys
\* that are not both str raises TypeError
SortPayments(payments) ==
    IF Len(payments) >= 2 /\ \E i \in 1..Len(payments) : DateKey(payments[i]).t # "str"
    THEN [raised |-> TRUE, value |-> <<>>]
    ELSE [raised |-> FALSE, value |-> SortDescending(payments, <<>>)]

(***************************************************************************)
(* sensor.py: the native_value of the per-location sensors, computed from  *)
(* coordinator.data (the Snapshot of the last refresh that returned).      *)
(***************************************************************************)
\* the property raised instead of returning a value
SensorRaised == [t |-> "raised"]

\* sensor.py lines 264-275 and 402-413, which are the same statements
HistoryAmount(data, location_id) ==
    IF location_id \notin DOMAIN data.locations THEN None
    ELSE LET loc_data == data.locations[location_id]
         IN  IF "payment_history" \notin DOMAIN loc_data THEN None
             ELSE LET history == loc_data.payment_history
                  IN  IF ~Truthy(history) THEN None
                      ELSE IF history.t # "dict" THEN SensorRaised
                      ELSE LET results == DictGet(history, "results", None)
                           IN  IF ~Truthy(results) THEN None
                               ELSE IF results.t # "list" \/ results.items[1].t # "dict"
                               THEN SensorRaised
                               ELSE LET amount ==
                                          PyFloat(DictGet(results.items[1], "amount", JStr("0")))
                                    IN  IF amount.raised THEN None ELSE amount.value

\* AdminisLocuinteLocationMonthlyBillSensor.native_value
MonthlyBillValue(data, location_id) == HistoryAmount(data, location_id)

\* AdminisLocuinteLocationLastPaymentSensor.native_value
LastPaymentValue(data, location_id) == HistoryAmount(data, location_id)

\* AdminisLocuinteLocationPendingSensor.native_value, sensor.py lines 336-352
PendingValue(data, location_id) ==
    IF location_id \notin DOMAIN data.locations THEN JFloat(0)
    ELSE LET loc_data == data.locations[location_id]
         IN  IF "pending_payments" \notin DOMAIN loc_data THEN JFloat(0)
             ELSE LET pending == loc_data.pending_payments
                  IN  IF ~Truthy(pending) THEN JFloat(0)
                      ELSE IF pending.t # "dict" THEN SensorRaised
                      ELSE LET results == DictGet(pending, "results", None)
                           IN  IF ~Truthy(results) THEN JFloat(0)
                               ELSE IF results.t # "dict" THEN SensorRaised
                               ELSE JFloat(0)

(***************************************************************************)
(* The portal: what each request may be answered with.                     *)
(***************************************************************************)
\* ok = FALSE: the request raised (aiohttp.ClientError), there is no response
\* answers to GET LOGIN_URL (line 56)
LoginGetResponses(jars) ==
    {[cookies |-> <<>>, ok |-> FALSE, status |-> 0]}
        \cup [cookies : jars, ok : {TRUE}, status : {200, 500}]

\* the session cookie a login sets
SessionCookie == [adminis |-> "abc123"]

\* answers to POST LOGIN_URL (lines 72-77): no response, the login accepted,
\* a redirect without the session cookie, the login form again
LoginPostResponses ==
    {[cookies |-> <<>>, ok |-> FALSE, status |-> 0],
     [cookies |-> SessionCookie, ok |-> TRUE, status |-> 302],
     [cookies |-> <<>>, ok |-> TRUE, status |-> 302],
     [cookies |-> <<>>, ok |-> TRUE, status |-> 200]}

\* the sequences over S of length at most n
SeqsUpTo(S, n) == UNION {[1..k -> S] : k \in 0..n}

EmptyPage == [blocks |-> <<>>, assoc |-> ""]

\* dashboard pages: up to MaxMatches data-code blocks with the given codes
\* and labels
Pages(codes, labels, assocs) ==
    [blocks : SeqsUpTo([code : codes, label : labels], MaxMatches), assoc : assocs]

\* answers to GET DASHBOARD_URL (lines 106-109)
DashboardResponses(pages) ==
    {[html |-> EmptyPage, ok |-> FALSE, status |-> 0],
     [html |-> EmptyPage, ok |-> TRUE, status |-> 500]}
        \cup [html : pages, ok : {TRUE}, status : {200}]

\* answers to an endpoint GET (lines 283, 322, 331)
EndpointResponses(bodies) ==
    {[ok |-> TRUE, status |-> 403, body |-> Invalid]}
        \cup [ok : {TRUE}, status : {200}, body : bodies \cup {Invalid}]

\* "Str. X, ap. 12, Iasi" and "Str. X, ap. S4, Iasi", shortened
LabelApartment == <<"X", ",", " ", "a", "p", ".", " ", "1", "2", ",", " ", "I">>
LabelParking == <<"X", ",", " ", "a", "p", ".", " ", "S", "4", ",", " ", "I">>
\* no ", ap. " at all; surrounded by blanks
LabelPlain == <<" ", "X", ",", " ", "I", " ">>
\* the parking marker without and with an apartment designator
LabelMarker == <<"P", "A", "R", "C", "A", "R", "I", " ", "X">>
LabelMarkerAp == <<"P", "A", "R", "C", "A", "R", "I", ",", " ", "a", "p", ".", " ", "7">>
Labels == {LabelApartment, LabelParking, LabelPlain, LabelMarker, LabelMarkerAp}

\* pending-payments bodies: the portal's {results: {owner, assoc}} with null
\* values, and a body that is a JSON list
PendingBodies ==
    {JDict([results |-> JDict([assoc |-> None, owner |-> None]),
            error |-> JInt(0)]),
     JList(<<>>)}

\* a payment record; amount is left out when it is Missing
Missing == [t |-> "missing"]
Payment(amount, date) ==
    JDict(IF amount = Missing
          THEN [date |-> date, receipt |-> JStr("r")]
          ELSE [amount |-> amount, date |-> date, receipt |-> JStr("r")])

\* payment-history bodies: no record, or one record whose amount is a
\* numeric text, null, a text that is no number, or missing
HistoryBodies ==
    {JDict([results |-> JList(<<>>)])}
        \cup {JDict([results |-> JList(<<Payment(a, JDate(30, 1, 2026))>>)]) :
                a \in {JStr("862.12"), None, JStr("abc"), Missing}}

CountersBodies == {JDict([results |-> JList(<<>>)])}

(***************************************************************************)
(* The client.                                                             *)
(***************************************************************************)
NoResult == [value |-> None, op |-> "none", outcome |-> "none"]
Returned(op, v) == [value |-> v, op |-> op, outcome |-> "returned"]
Raised(op) == [value |-> None, op |-> op, outcome |-> "raised"]

\* no refresh has been repeated
NoPoll == [log |-> <<>>, value |-> None, live |-> FALSE]

\* __init__, lines 37-43; no call has run
Init ==
    /\ cookies = <<>>
    /\ authenticated = FALSE
    /\ location_ids = <<>>
    /\ location_info = <<>>
    /\ pc = "idle"
    /\ call = "none"
    /\ arg = ""
    /\ idx = 0
    /\ location_data = <<>>
    /\ locations_data = <<>>
    /\ last_payment = None
    /\ all_payments = <<>>
    /\ result = NoResult
    /\ log = <<>>
    /\ prev = NoPoll
    /\ setup = "none"

\* the running call ends with res; its locals are gone
Finish(res) ==
    /\ pc' = "idle"
    /\ result' = res
    /\ idx' = 0
    /\ location_data' = <<>>
    /\ locations_data' = <<>>
    /\ last_payment' = None
    /\ all_payments' = <<>>

\* the running call awaits the request named by p
Await(p) ==
    /\ pc' = p
    /\ result' = NoResult

\* the locations get_payment_history loops over (line 373)
Targets(a, ids) == IF a # "" THEN <<a>> ELSE ids

\* line 388 after the sort of line 387
FinishPaymentHistory(payments) ==
    LET sorted == SortPayments(payments)
    IN  Finish(IF sorted.raised THEN Raised("get_payment_history")
               ELSE Returned("get_payment_history", sorted.value))

\* call c(a) goes on with the location list ids at hand: get_data from line
\* 187 (after a discovery) or 192, get_payment_history from line 372,
\* get_locations from line 398
WithLocations(c, a, ids, info) ==
    CASE c = "get_data" ->
            IF ids = <<>>
            THEN Finish(Returned("get_data", EmptySnapshot))
            ELSE /\ Await("pending")
                 /\ idx' = 1
                 /\ location_data' = StartLocation(ids[1], info)
                 /\ locations_data' = <<>>
                 /\ last_payment' = None
                 /\ all_payments' = <<>>
      [] c = "get_locations" -> Finish(Returned("get_locations", ids))
      [] c = "get_payment_history" ->
            IF Targets(a, ids) = <<>>
            THEN FinishPaymentHistory(<<>>)
            ELSE /\ Await("history")
                 /\ idx' = 1
                 /\ all_payments' = <<>>
                 /\ UNCHANGED <<location_data, locations_data, last_payment>>

\* lines 185-186, 369-370, 395-396 without the test of the location list
WithSessionAlwaysDiscover(c, a, ids, info) ==
    Await("dashboard") /\ UNCHANGED locals

\* call c(a) goes on behind its "if not self._authenticated" (lines 180-181,
\* 366-367, 392-393): discovery when the location list is empty (185-186,
\* 369-370, 395-396)
WithSession(c, a, ids, info) ==
    IF ids = <<>>
    THEN Await("dashboard") /\ UNCHANGED locals
    ELSE WithLocations(c, a, ids, info)

\* a public coroutine is called: it runs to its first request
Start(c, a) ==
    /\ pc = "idle"
    /\ call' = c
    /\ arg' = a
    /\ log' = <<>>
    /\ UNCHANGED <<session, locs>>
    /\ IF c = "authenticate" \/ ~authenticated
       THEN Await("login_get") /\ UNCHANGED locals
       ELSE WithSession(c, a, location_ids, location_info)

\* authenticate(), lines 45-56, called on its own (as async_setup_entry does)
authenticate == Start("authenticate", "") /\ UNCHANGED <<prev, setup>>
\* get_data(), lines 180-186
get_data == Start("get_data", "") /\ UNCHANGED <<prev, setup>>
\* get_locations(), lines 392-396
get_locations == Start("get_locations", "") /\ UNCHANGED <<prev, setup>>
\* get_payment_history(location_id), lines 366-370
get_payment_history(a) == Start("get_payment_history", a) /\ UNCHANGED <<prev, setup>>

\* __init__.py, lines 48-61: the coordinator's next refresh after a refresh
\* that returned; prev keeps the refresh that returned
async_update_data ==
    /\ pc = "idle"
    /\ result.op = "get_data"
    /\ result.outcome = "returned"
    /\ prev' = [log |-> log, value |-> result.value, live |-> authenticated]
    /\ Start("get_data", "")
    /\ UNCHANGED setup

\* __init__.py, lines 32-43: the entry is set up with a client of its own,
\* which no one has called yet; setup awaits the client's authenticate()
async_setup_entry ==
    /\ setup = "none"
    /\ call = "none"
    /\ setup' = "authenticate"
    /\ Start("authenticate", "")
    /\ UNCHANGED prev

\* lines 42-63 with a login the portal rejected treated as one that raised
first_refresh_after_login ==
    /\ setup = "authenticate"
    /\ pc = "idle"
    /\ result.op = "authenticate"
    /\ IF result.outcome = "raised" \/ result.value = FALSE
       THEN /\ setup' = "not_ready"
            /\ UNCHANGED <<session, locs, pc, call, arg, locals, result, log, prev>>
       ELSE /\ setup' = "first_refresh"
            /\ Start("get_data", "")
            /\ UNCHANGED prev

\* lines 42-63: authenticate() has ended.  An exception is caught at line 44
\* and ConfigEntryNotReady raised at 46; its return value is dropped, the
\* coordinator is made and its first refresh (63) calls async_update_data,
\* which calls get_data()
first_refresh ==
    /\ setup = "authenticate"
    /\ pc = "idle"
    /\ result.op = "authenticate"
    /\ IF result.outcome = "raised"
       THEN /\ setup' = "not_ready"
            /\ UNCHANGED <<session, locs, pc, call, arg, locals, result, log, prev>>
       ELSE /\ setup' = "first_refresh"
            /\ Start("get_data", "")
            /\ UNCHANGED prev

\* lines 63-73: the get_data() of the first refresh has ended.  Its exception
\* becomes UpdateFailed at line 53, and the coordinator's
\* async_config_entry_first_refresh raises ConfigEntryNotReady for a first
\* refresh that failed; none of lines 63-73 catches it.  Otherwise the
\* platforms are set up and async_setup_entry returns True.
setup_entry_return ==
    /\ setup = "first_refresh"
    /\ pc = "idle"
    /\ result.op = "get_data"
    /\ setup' = IF result.outcome = "raised" THEN "not_ready" ELSE "loaded"
    /\ UNCHANGED <<session, locs, pc, call, arg, locals, result, log, prev>>

\* lines 106-111, 283-287, 322-326, 331-335: a request of the discovery or
\* of a fetcher sends self._cookies and reads the status and the body of
\* the response; with the response's cookies stored, as authenticate does
SessionAfterFetchStoring(jar, flag, resp) ==
    [cookies |-> DictUpdate(jar, resp.cookies), authenticated |-> flag]

\* lines 106-111, 283-287, 322-326, 331-335: a request of the discovery or
\* of a fetcher sends self._cookies and reads the status and the body of
\* the response; the session store after it
SessionAfterFetch(jar, flag, resp) == [cookies |-> jar, authenticated |-> flag]

SessionKept(resp) ==
    LET after == SessionAfterFetch(cookies, authenticated, resp)
    IN  /\ cookies' = after.cookies
        /\ authenticated' = after.authenticated

Answered(kind, loc, resp) == Append(log, [resp |-> resp, kind |-> kind, loc |-> loc])

\* authenticate, lines 56-62: the answer to the GET of the login page.  The
\* exception of line 59 (and a transport error) leaves authenticate at 97 and
\* its caller too: no caller catches it.
login_get(resp) ==
    /\ pc = "login_get"
    /\ log' = Answered("login_get", "", resp)
    /\ UNCHANGED <<authenticated, locs, call, arg>>
    /\ UNCHANGED <<prev, setup>>
    /\ IF ~resp.ok \/ resp.status # 200
       THEN Finish(Raised(call)) /\ UNCHANGED cookies
       ELSE /\ cookies' = DictUpdate(cookies, resp.cookies)
            /\ Await("login_post")
            /\ UNCHANGED locals

\* line 79: self._cookies.update(response cookies)
PostCookies(jar, resp) == DictUpdate(jar, resp.cookies)

\* lines 82-93 with the flag cleared by a login that did not succeed
LoginResultClearing(jar, resp, flag) ==
    IF resp.status = 302 /\ "adminis" \in DOMAIN jar
    THEN [authenticated |-> TRUE, value |-> TRUE]
    ELSE [authenticated |-> FALSE, value |-> FALSE]

\* lines 82-93: what authenticate returns and self._authenticated
\* afterwards, given the cookies after line 79
LoginResult(jar, resp, flag) ==
    IF resp.status = 302
    THEN IF "adminis" \in DOMAIN jar
         THEN [authenticated |-> TRUE, value |-> TRUE]
         ELSE [authenticated |-> flag, value |-> FALSE]
    ELSE [authenticated |-> flag, value |-> FALSE]

\* authenticate, lines 72-97: the answer to the POST of the credentials; then
\* the caller goes on, whatever authenticate returned
login_post(resp) ==
    /\ pc = "login_post"
    /\ log' = Answered("login_post", "", resp)
    /\ UNCHANGED <<locs, call, arg>>
    /\ UNCHANGED <<prev, setup>>
    /\ IF ~resp.ok
       THEN Finish(Raised(call)) /\ UNCHANGED session
       ELSE LET jar == PostCookies(cookies, resp)
                r == LoginResult(jar, resp, authenticated)
            IN  /\ cookies' = jar
                /\ authenticated' = r.authenticated
                /\ IF call = "authenticate"
                   THEN Finish(Returned("authenticate", r.value))
                   ELSE WithSession(call, arg, location_ids, location_info)

\* _extract_location_ids, lines 105-157, and the caller's assignment to
\* self._location_ids (186, 370, 396)
extract_location_ids(resp) ==
    /\ pc = "dashboard"
    /\ log' = Answered("dashboard", "", resp)
    /\ SessionKept(resp)
    /\ UNCHANGED <<call, arg>>
    /\ UNCHANGED <<prev, setup>>
    /\ LET r == ExtractLocationIds(resp, location_info)
       IN  IF r.raised
           THEN Finish(Raised(call)) /\ UNCHANGED locs
           ELSE /\ location_ids' = r.ids
                /\ location_info' = r.info
                /\ WithLocations(call, arg, r.ids, r.info)

\* get_data, lines 214-227: the answer to the pending-payments request
fetch_pending_payments(resp) ==
    /\ pc = "pending"
    /\ log' = Answered("pending", location_ids[idx], resp)
    /\ location_data' = DictSet(location_data, "pending_payments", PendingField(resp))
    /\ Await("history")
    /\ UNCHANGED <<prev, setup>>
    /\ SessionKept(resp)
    /\ UNCHANGED <<locs, call, arg, idx, locations_data, last_payment,
                   all_payments>>

\* get_data, lines 230-245: the answer to the payment-history request
fetch_payment_history(resp) ==
    /\ pc = "history"
    /\ call = "get_data"
    /\ log' = Answered("history", location_ids[idx], resp)
    /\ LET h == HistoryStep(resp, last_payment, location_ids[idx])
       IN  /\ location_data' = DictSet(location_data, "payment_history", h.field)
           /\ last_payment' = h.last_payment
    /\ Await("counters")
    /\ UNCHANGED <<prev, setup>>
    /\ SessionKept(resp)
    /\ UNCHANGED <<locs, call, arg, idx, locations_data, all_payments>>

\* lines 248-274 with a counters request that failed sent again
fetch_counters_retrying(resp) ==
    /\ pc = "counters"
    /\ log' = Answered("counters", location_ids[idx], resp)
    /\ SessionKept(resp)
    /\ UNCHANGED <<locs, call, arg, prev, setup>>
    /\ LET done == DictSet(location_data, "counters", CountersField(resp))
           data == DictSet(locations_data, location_ids[idx], done)
       IN  IF FetchCounters(resp).raised
           THEN Await("counters") /\ UNCHANGED locals
           ELSE IF idx < Len(location_ids)
           THEN /\ Await("pending")
                /\ idx' = idx + 1
                /\ location_data' = StartLocation(location_ids[idx + 1], location_info)
                /\ locations_data' = data
                /\ UNCHANGED <<last_payment, all_payments>>
           ELSE Finish(Returned("get_data", Snapshot(location_ids, data, last_payment)))

\* get_data, lines 248-274: the answer to the counters request, then the
\* next location or the summary and the return
fetch_counters(resp) ==
    /\ pc = "counters"
    /\ log' = Answered("counters", location_ids[idx], resp)
    /\ SessionKept(resp)
    /\ UNCHANGED <<locs, call, arg>>
    /\ UNCHANGED <<prev, setup>>
    /\ LET done == DictSet(location_data, "counters", CountersField(resp))
           data == DictSet(locations_data, location_ids[idx], done)
       IN  IF idx < Len(location_ids)
           THEN /\ Await("pending")
                /\ idx' = idx + 1
                /\ location_data' = StartLocation(location_ids[idx + 1], location_info)
                /\ locations_data' = data
                /\ UNCHANGED <<last_payment, all_payments>>
           ELSE Finish(Returned("get_data", Snapshot(location_ids, data, last_payment)))

\* get_payment_history, lines 375-388: the answer to the payment-history
\* request of one location, then the next location or the sort and return
history_of_location(resp) ==
    /\ pc = "history"
    /\ call = "get_payment_history"
    /\ LET targets == Targets(arg, location_ids)
           payments == HistoryPayments(resp, targets[idx], all_payments)
       IN  /\ log' = Answered("history", targets[idx], resp)
           /\ IF idx < Len(targets)
              THEN /\ Await("history")
                   /\ idx' = idx + 1
                   /\ all_payments' = payments
                   /\ UNCHANGED <<location_data, locations_data, last_payment>>
              ELSE FinishPaymentHistory(payments)
    /\ UNCHANGED <<prev, setup>>
    /\ SessionKept(resp)
    /\ UNCHANGED <<locs, call, arg>>

(***************************************************************************)
(* Specifications.  They differ in what the portal may answer.             *)
(***************************************************************************)
\* Polls: one login cookie, pages of apartment blocks, every endpoint body.
Next ==
    \/ authenticate
    \/ get_data
    \/ get_locations
    \/ \E a \in LocationIds \cup {""} : get_payment_history(a)
    \/ \E r \in LoginGetResponses({<<>>}) : login_get(r)
    \/ \E r \in LoginPostResponses : login_post(r)
    \/ \E r \in DashboardResponses(Pages(LocationIds, {LabelApartment}, {""})) :
            extract_location_ids(r)
    \/ \E r \in EndpointResponses(PendingBodies) : fetch_pending_payments(r)
    \/ \E r \in EndpointResponses(HistoryBodies) : fetch_payment_history(r)
    \/ \E r \in EndpointResponses(CountersBodies) : fetch_counters(r)
    \/ \E r \in EndpointResponses(HistoryBodies) : history_of_location(r)

Spec == Init /\ [][Next]_vars

\* Discovery: get_locations against pages of every kind of block: codes that
\* are no numbers, empty labels, the five labels, with and without data-assoc.
NextDiscovery ==
    \/ get_locations
    \/ \E r \in LoginGetResponses({<<>>}) : login_get(r)
    \/ \E r \in LoginPostResponses : login_post(r)
    \/ \E r \in DashboardResponses(
                    Pages(LocationIds \cup {"x1"}, Labels \cup {<<>>}, {"", "77"})) :
            extract_location_ids(r)

SpecDiscovery == Init /\ [][NextDiscovery]_vars

\* Scan: get_locations against pages of up to MaxScan blocks, so that an id
\* repeats after another id was seen.
ScanPages ==
    [blocks : SeqsUpTo([code : LocationIds, label : {LabelApartment, LabelPlain}],
                       MaxScan),
     assoc : {""}]

NextScan ==
    \/ get_locations
    \/ \E r \in LoginGetResponses({<<>>}) : login_get(r)
    \/ \E r \in LoginPostResponses : login_post(r)
    \/ \E r \in DashboardResponses(ScanPages) : extract_location_ids(r)

SpecScan == Init /\ [][NextScan]_vars

\* Repeated refreshes of the coordinator against an upstream that no longer
\* changes once a refresh has returned: a request the last refresh made is
\* answered as it was then.  The portal accepts the login when it answers.
SameAnswer(kind, loc, resp) ==
    \A i \in 1..Len(prev.log) :
        (prev.log[i].kind = kind /\ prev.log[i].loc = loc) => prev.log[i].resp = resp

RepollPending == EndpointResponses({JDict([results |-> JDict([owner |-> None])])})
RepollHistory ==
    EndpointResponses({JDict([results |-> JList(<<Payment(a, JDate(30, 1, 2026))>>)]) :
                          a \in {JStr("862.12"), None}})
RepollCounters == EndpointResponses(CountersBodies)

NextRepoll ==
    \/ get_data
    \/ async_update_data
    \/ \E r \in LoginGetResponses({<<>>}) : login_get(r)
    \/ \E r \in {x \in LoginPostResponses : ~x.ok \/ "adminis" \in DOMAIN x.cookies} :
            login_post(r)
    \/ \E r \in DashboardResponses(Pages(LocationIds, {LabelApartment}, {""})) :
            SameAnswer("dashboard", "", r) /\ extract_location_ids(r)
    \/ \E r \in RepollPending :
            /\ pc = "pending"
            /\ SameAnswer("pending", location_ids[idx], r)
            /\ fetch_pending_payments(r)
    \/ \E r \in RepollHistory :
            /\ pc = "history"
            /\ SameAnswer("history", location_ids[idx], r)
            /\ fetch_payment_history(r)
    \/ \E r \in RepollCounters :
            /\ pc = "counters"
            /\ SameAnswer("counters", location_ids[idx], r)
            /\ fetch_counters(r)

SpecRepoll == Init /\ [][NextRepoll]_vars

\* Payment histories: get_payment_history against bodies of up to two
\* records dated 30.01.2026 and 01.02.2026, in either order.
HistoryDates == {JDate(30, 1, 2026), JDate(1, 2, 2026)}
DatedBodies ==
    {JDict([results |-> JList(items)]) :
        items \in SeqsUpTo({Payment(JStr("862.12"), d) : d \in HistoryDates}, 2)}

NextHistory ==
    \/ \E a \in LocationIds \cup {""} : get_payment_history(a)
    \/ \E r \in LoginGetResponses({<<>>}) : login_get(r)
    \/ \E r \in LoginPostResponses : login_post(r)
    \/ \E r \in DashboardResponses(Pages(LocationIds, {LabelApartment}, {""})) :
            extract_location_ids(r)
    \/ \E r \in EndpointResponses(DatedBodies) : history_of_location(r)

SpecHistory == Init /\ [][NextHistory]_vars

\* Responses that carry cookies: every answer of the dashboard and of the
\* endpoints comes without a cookie and with a cookie the portal sets.
StrayCookie == [adminis |-> "zzz999"]
CarryingPages(responses) ==
    {[cookies |-> c, html |-> r.html, ok |-> r.ok, status |-> r.status] :
        r \in responses, c \in {<<>>, StrayCookie}}
CarryingBodies(responses) ==
    {[cookies |-> c, ok |-> r.ok, status |-> r.status, body |-> r.body] :
        r \in responses, c \in {<<>>, StrayCookie}}

FrameBody == JDict([results |-> JList(<<>>)])
FrameResponses ==
    CarryingBodies({x \in EndpointResponses({FrameBody}) : x.body # Invalid \/ x.status = 403})

NextFrame ==
    \/ get_data
    \/ get_payment_history("")
    \/ \E r \in LoginGetResponses({<<>>}) : login_get(r)
    \/ \E r \in LoginPostResponses : login_post(r)
    \/ \E r \in CarryingPages(DashboardResponses(Pages(LocationIds, {LabelApartment}, {""}))) :
            extract_location_ids(r)
    \/ \E r \in FrameResponses : fetch_pending_payments(r)
    \/ \E r \in FrameResponses : fetch_payment_history(r)
    \/ \E r \in FrameResponses : fetch_counters(r)
    \/ \E r \in FrameResponses : history_of_location(r)

SpecFrame == Init /\ [][NextFrame]_vars

\* Setup: one run of async_setup_entry against a portal that may fail or
\* reject either login; every endpoint answers an empty list of results or
\* fails.
SetupResponses == EndpointResponses({FrameBody})

NextSetup ==
    \/ async_setup_entry
    \/ first_refresh
    \/ setup_entry_return
    \/ \E r \in LoginGetResponses({<<>>}) : login_get(r)
    \/ \E r \in LoginPostResponses : login_post(r)
    \/ \E r \in DashboardResponses(Pages(LocationIds, {LabelApartment}, {""})) :
            extract_location_ids(r)
    \/ \E r \in SetupResponses : fetch_pending_payments(r)
    \/ \E r \in SetupResponses : fetch_payment_history(r)
    \/ \E r \in SetupResponses : fetch_counters(r)

SpecSetup == Init /\ [][NextSetup]_vars

(***************************************************************************)
(* Properties.                                                             *)
(***************************************************************************)
Range(seq) == {seq[i] : i \in 1..Len(seq)}

\* the requests of the running (last) call that were answered, by kind
Entries(kind) == SelectSeq(log, LAMBDA e : e.kind = kind)
EndpointKinds == {"pending", "history", "counters"}
EndpointEntries == SelectSeq(log, LAMBDA e : e.kind \in EndpointKinds)

\* the last call has ended
Ended(op) == pc = "idle" /\ result.op = op
ReturnedFrom(op) == Ended(op) /\ result.outcome = "returned"

\* the answers to the fetch of one resource of one location in this poll
FetchesOf(kind, loc) == SelectSeq(log, LAMBDA e : e.kind = kind /\ e.loc = loc)
\* that fetch call succeeded: HTTP success and a body parsed as JSON
FetchSucceeded(e) == e.resp.ok /\ e.resp.status = 200 /\ e.resp.body # Invalid
\* the Snapshot field of a resource
FieldOf(kind) ==
    CASE kind = "pending" -> "pending_payments"
      [] kind = "history" -> "payment_history"
      [] kind = "counters" -> "counters"

\* this call logged in, and the login did not succeed
LoginFailed == Entries("login_get") # <<>> /\ ~authenticated

\* C1: a get_data() that started unauthenticated and whose authenticate()
\* did not succeed (it raised or returned false) never returns a Snapshot.
C1_NoSnapshotAfterFailedLogin ==
    (Ended("get_data") /\ LoginFailed) => result.outcome = "raised"

\* C2: a dashboard or endpoint request is in flight only while the client's
\* authenticated flag is true.
C2_FetchOnlyWhenAuthenticated ==
    pc \in {"dashboard"} \cup EndpointKinds => authenticated

\* C3: a poll of an authenticated client that reached the endpoint fetches
\* returns; when some fetch of
\* it failed, the Snapshot has every location, every one of the 3N fetches
\* was attempted once, a field whose fetch failed is null and every other
\* field holds the body its own fetch returned.
C3_FetchFailureIsolated ==
    (Ended("get_data") /\ authenticated /\ EndpointEntries # <<>>) =>
        /\ result.outcome = "returned"
        /\ (\E i \in 1..Len(log) :
                log[i].kind \in EndpointKinds /\ ~FetchSucceeded(log[i])) =>
              /\ DOMAIN result.value.locations = Range(location_ids)
              /\ \A loc \in Range(location_ids) : \A kind \in EndpointKinds :
                    LET es == FetchesOf(kind, loc)
                    IN  /\ Len(es) = 1
                        /\ result.value.locations[loc][FieldOf(kind)] =
                              IF FetchSucceeded(es[1]) THEN es[1].resp.body ELSE None

\* C4: in the Snapshot an authenticated client returns the pending_payments and payment_history
\* fields hold the body of their fetch whenever that fetch succeeded,
\* whatever the body; they are null only when their own fetch failed.
C4_FieldKeptWhenFetchSucceeded ==
    (ReturnedFrom("get_data") /\ authenticated /\ location_ids # <<>>) =>
        \A loc \in Range(location_ids) : \A kind \in {"pending", "history"} :
            LET e == FetchesOf(kind, loc)[1]
                field == result.value.locations[loc][FieldOf(kind)]
            IN  /\ FetchSucceeded(e) => field = e.resp.body
                /\ field = None => ~FetchSucceeded(e)

\* the records the payment-history fetch of the i-th location returned
HistoryRecords(i) ==
    LET es == FetchesOf("history", location_ids[i])
    IN  IF es # <<>> /\ FetchSucceeded(es[1]) /\ es[1].resp.body.t = "dict"
           /\ DictGet(es[1].resp.body, "results", None).t = "list"
        THEN DictGet(es[1].resp.body, "results", None).items
        ELSE <<>>

\* C5: in the Snapshot an authenticated client returns, the summary's
\* last_payment_location_id and last_payment_date are
\* those of the first record of the first location, in discovery order,
\* whose history fetch returned a record; the last_payment fields are
\* absent exactly when no location has a record.
C5_LastPaymentOfFirstLocation ==
    (ReturnedFrom("get_data") /\ authenticated /\ location_ids # <<>>) =>
        LET with == {i \in 1..Len(location_ids) : HistoryRecords(i) # <<>>}
            summary == result.value.summary
        IN  IF with = {}
            THEN DOMAIN summary = {"total_pending", "location_count"}
            ELSE LET first == CHOOSE i \in with : \A j \in with : i <= j
                 IN  /\ {"last_payment_amount", "last_payment_date",
                         "last_payment_location_id"} \subseteq DOMAIN summary
                     /\ summary.last_payment_location_id = location_ids[first]
                     /\ summary.last_payment_date =
                            DictGet(HistoryRecords(first)[1], "date", JStr(""))

\* the login POST of this call was answered (authenticate returned)
LoginAnswered == Entries("login_post") # <<>> /\ Entries("login_post")[1].resp.ok
LoginPostOfCall == Entries("login_post")[1].resp
LoginGetOfCall == Entries("login_get")[1].resp

\* C6: after authenticate() returns, the authenticated flag is true if and
\* only if its login POST answered 302 and the adminis cookie is present;
\* a direct call returns that flag.
C6_FlagFollowsLastLogin ==
    LoginAnswered =>
        /\ authenticated <=>
              (LoginPostOfCall.status = 302 /\ "adminis" \in DOMAIN cookies)
        /\ ReturnedFrom("authenticate") => result.value = authenticated

\* C7: after authenticate() returns, the cookie set, the flag and the
\* value returned are those a new client gets from the same GET and POST
\* responses.
C7_LoginDependsOnLastHandshakeOnly ==
    LoginAnswered =>
        LET jar == PostCookies(DictUpdate(<<>>, LoginGetOfCall.cookies), LoginPostOfCall)
            r == LoginResult(jar, LoginPostOfCall, FALSE)
        IN  /\ cookies = jar
            /\ authenticated = r.authenticated
            /\ ReturnedFrom("authenticate") => result.value = r.value

\* C8: in a returned Snapshot summary.location_count is the number of
\* entries of locations, which is the number of distinct ids discovered.
C8_LocationCount ==
    ReturnedFrom("get_data") =>
        /\ result.value.summary.location_count =
              Cardinality(DOMAIN result.value.locations)
        /\ result.value.summary.location_count = Cardinality(Range(location_ids))

\* a poll whose dashboard listed the same data-code twice returned one location
C8_Witness ==
    /\ ReturnedFrom("get_data")
    /\ result.value.summary.location_count = 1
    /\ \E i \in 1..Len(log) :
          /\ log[i].kind = "dashboard"
          /\ Len(log[i].resp.html.blocks) = 2

\* C9: a get_data() over an empty location set asks for the dashboard once
\* and issues no endpoint fetch; when the set is still empty it returns the
\* empty Snapshot (it raises only out of the login, before discovery), and
\* the set stays empty.
C9_EmptyDiscovery ==
    /\ (call = "get_data" /\ location_ids = <<>>) =>
          /\ pc \in {"idle", "login_get", "login_post", "dashboard"}
          /\ EndpointEntries = <<>>
          /\ Len(Entries("dashboard")) <= 1
          /\ pc = "idle" =>
                IF Entries("dashboard") = <<>>
                THEN result.outcome = "raised"
                ELSE /\ result.outcome = "returned"
                     /\ result.value.locations = <<>>
                     /\ result.value.summary =
                           [total_pending |-> JFloat(0), location_count |-> 0]
    /\ (ReturnedFrom("get_data") /\ result.value.locations = <<>>) =>
          location_ids = <<>>

\* a poll of an authenticated client found no location, twice in a row
C9_Witness ==
    /\ ReturnedFrom("get_data")
    /\ location_ids = <<>>
    /\ authenticated
    /\ Len(log) = 1
    /\ log[1].kind = "dashboard"

\* the page of a dashboard answer has no data-code match
NoMatch(resp) == Matches(resp.html) = <<>>

\* C10: discovery never raises; when the dashboard request fails (no
\* response, or a status other than 200) or the page has no data-code
\* match, it returns the empty list.
C10_DiscoveryNeverRaises ==
    Entries("dashboard") # <<>> =>
        LET resp == Entries("dashboard")[1].resp
        IN  /\ result.outcome # "raised"
            /\ (~resp.ok \/ resp.status # 200 \/ NoMatch(resp)) =>
                  /\ location_ids = <<>>
                  /\ ReturnedFrom("get_locations") => result.value = <<>>

\* discovery returned the empty list for a page whose blocks do not match
C10_Witness ==
    /\ ReturnedFrom("get_locations")
    /\ result.value = <<>>
    /\ \E i \in 1..Len(log) :
          /\ log[i].kind = "dashboard"
          /\ log[i].resp.status = 200
          /\ Len(log[i].resp.html.blocks) = 2

\* the data-code values of the matches of a page, in page order
CodesOf(html) == [i \in 1..Len(Matches(html)) |-> Matches(html)[i].code]
\* the position of the first occurrence of x in seq
FirstIndex(seq, x) ==
    CHOOSE i \in 1..Len(seq) : seq[i] = x /\ \A j \in 1..(i - 1) : seq[j] # x

\* C11: after a discovery over a page that was served, the location list
\* holds every identifier of the page's matches exactly once, in the order
\* of the first occurrences, the metadata has one entry per identifier of
\* the list, and get_locations returns that list.
C11_DistinctInFirstSeenOrder ==
    (Entries("dashboard") # <<>> /\ Entries("dashboard")[1].resp.ok
        /\ Entries("dashboard")[1].resp.status = 200) =>
        LET codes == CodesOf(Entries("dashboard")[1].resp.html)
            n == Len(location_ids)
        IN  /\ Range(location_ids) = Range(codes)
            /\ \A i, j \in 1..n : i < j =>
                  /\ location_ids[i] # location_ids[j]
                  /\ FirstIndex(codes, location_ids[i])
                        < FirstIndex(codes, location_ids[j])
            /\ DOMAIN location_info = Range(location_ids)
            /\ \A id \in DOMAIN location_info : location_info[id].id = id
            /\ ReturnedFrom("get_locations") => result.value = location_ids

\* discovery returned two ids for a page where the first id comes back
\* after the second
C11_Witness ==
    /\ ReturnedFrom("get_locations")
    /\ Entries("dashboard") # <<>>
    /\ CodesOf(Entries("dashboard")[1].resp.html) = <<"16835", "17012", "16835">>
    /\ result.value = <<"16835", "17012">>

\* the apartment designator of a label: the text after ", ap. " up to the
\* next comma
Designator(label) == SplitFirst(SplitSecond(label, ApDelimiter), <<",">>)

\* the type the classification rule gives a label: parking for the marker
\* or a designator that begins with "S", else apartment for a designator,
\* else unknown
RuleType(label) ==
    IF Contains(label, ParkingMarker)
       \/ (Contains(label, ApDelimiter) /\ StartsWith(Designator(label), <<"S">>))
    THEN "parking"
    ELSE IF Contains(label, ApDelimiter) THEN "apartment" ELSE "unknown"

\* C12: after a discovery over a page that was served, the type recorded
\* for every location is parking when its label contains PARCARI or its
\* apartment designator begins with "S", else apartment when the label has
\* a designator, else unknown.
C12_TypeFollowsRule ==
    (Entries("dashboard") # <<>> /\ Entries("dashboard")[1].resp.ok
        /\ Entries("dashboard")[1].resp.status = 200) =>
        LET html == Entries("dashboard")[1].resp.html
        IN  \A id \in Range(location_ids) :
                location_info[id].type =
                    RuleType(Matches(html)[FirstIndex(CodesOf(html), id)].label)

\* the requests two refreshes both made were answered alike
SameUpstream(log1, log2) ==
    \A i \in 1..Len(log1) : \A j \in 1..Len(log2) :
        (log1[i].kind = log2[j].kind /\ log1[i].loc = log2[j].loc
            /\ log1[i].kind \in {"dashboard"} \cup EndpointKinds)
        => log1[i].resp = log2[j].resp

\* C13: a get_data() that returns after a get_data() that returned, both
\* with the session live and with the same upstream answers, returns the
\* same Snapshot: the same location keys, the same summary, the same
\* per-location values.
C13_RepollIdempotent ==
    (ReturnedFrom("get_data") /\ authenticated /\ prev # NoPoll /\ prev.live
        /\ SameUpstream(prev.log, log)) =>
        /\ DOMAIN result.value.locations = DOMAIN prev.value.locations
        /\ result.value.summary = prev.value.summary
        /\ \A loc \in DOMAIN result.value.locations :
              result.value.locations[loc] = prev.value.locations[loc]
        /\ result.value = prev.value

\* the refresh that discovered two locations, had a failed fetch and found
\* a last payment was repeated without a login and without a discovery
C13_Witness ==
    /\ ReturnedFrom("get_data")
    /\ authenticated
    /\ prev # NoPoll
    /\ prev.live
    /\ Entries("dashboard") = <<>>
    /\ \E i \in 1..Len(prev.log) : prev.log[i].kind = "dashboard"
    /\ Len(location_ids) = 2
    /\ \E i \in 1..Len(log) : log[i].resp.status = 403
    /\ "last_payment_date" \in DOMAIN result.value.summary
    /\ "info" \in DOMAIN result.value.locations[location_ids[1]]

\* C14: over the Snapshot an authenticated client returned, the monthly
\* bill and the last payment of a location are None when its
\* payment_history is null, and its pending value is None when its
\* pending_payments is null.
C14_NullFieldShowsUnknown ==
    (ReturnedFrom("get_data") /\ authenticated) =>
        \A loc \in DOMAIN result.value.locations :
            LET loc_data == result.value.locations[loc]
            IN  /\ loc_data.payment_history = None =>
                      /\ MonthlyBillValue(result.value, loc) = None
                      /\ LastPaymentValue(result.value, loc) = None
                /\ loc_data.pending_payments = None =>
                      PendingValue(result.value, loc) = None

\* the authenticate() of the running (last) call raised: its GET was not
\* answered with 200, or its POST was not answered
AuthenticateRaised ==
    /\ log # <<>>
    /\ LET e == log[Len(log)]
       IN  \/ e.kind = "login_get" /\ (~e.resp.ok \/ e.resp.status # 200)
           \/ e.kind = "login_post" /\ ~e.resp.ok

\* C15: a get_data() that raised is one whose authenticate() raised, and
\* it had sent no dashboard or endpoint request; a get_data() that got as
\* far as the dashboard or an endpoint returns, whatever those requests
\* were answered.
C15_RaisesOnlyFromAuthenticate ==
    Ended("get_data") =>
        /\ result.outcome = "raised" =>
              /\ AuthenticateRaised
              /\ Entries("dashboard") = <<>>
              /\ EndpointEntries = <<>>
        /\ (Entries("dashboard") # <<>> \/ EndpointEntries # <<>>) =>
              result.outcome = "returned"

\* a poll raised out of a login POST that got no response
C15_Witness ==
    /\ Ended("get_data")
    /\ result.outcome = "raised"
    /\ Len(log) = 2
    /\ log[2].kind = "login_post"
    /\ ~log[2].resp.ok

\* the records a payment-history answer carries, tagged with its location
TaggedRecords(e) ==
    IF FetchSucceeded(e)
    THEN LET items == e.resp.body.d.results.items
         IN  [i \in 1..Len(items) |->
                 JDict(DictSet(items[i].d, "location_id", JStr(e.loc)))]
    ELSE <<>>

RECURSIVE Concat(_)
Concat(seqs) == IF seqs = <<>> THEN <<>> ELSE Head(seqs) \o Concat(Tail(seqs))

\* the tagged records of all payment-history answers of the call
AllTaggedRecords ==
    Concat([i \in 1..Len(Entries("history")) |-> TaggedRecords(Entries("history")[i])])

Count(seq, x) == Cardinality({i \in 1..Len(seq) : seq[i] = x})
SameRecords(a, b) ==
    /\ Len(a) = Len(b)
    /\ \A x \in Range(a) \cup Range(b) : Count(a, x) = Count(b, x)

\* the day a DD.MM.YYYY text names, as a number that grows with time
DayOf(date) == date.dmy[3] * 10000 + date.dmy[2] * 100 + date.dmy[1]

\* the call asked for the history of the requested location, or of every
\* discovered location in order, once each
HistoryOfTargets ==
    [i \in 1..Len(Entries("history")) |-> Entries("history")[i].loc]
        = Targets(arg, location_ids)

\* the list returned holds the tagged records of the answered fetches and
\* nothing else; a failed fetch adds nothing
RecordsTagged == SameRecords(result.value, AllTaggedRecords)

\* no record of the list is older than a record behind it
MostRecentFirst ==
    \A i, j \in 1..Len(result.value) :
        i < j => DayOf(result.value[i].d.date) >= DayOf(result.value[j].d.date)

\* C16: get_payment_history() does not raise once it is logged in, and an
\* authenticated client returns the records
\* of the requested location, or of all discovered locations, each tagged
\* with its location_id, the most recent payment first; a location whose
\* fetch failed contributes nothing.
C16_PaymentHistorySorted ==
    Ended("get_payment_history") =>
        /\ AuthenticateRaised \/ result.outcome = "returned"
        /\ (result.outcome = "returned" /\ authenticated) =>
              /\ HistoryOfTargets
              /\ RecordsTagged
              /\ MostRecentFirst

\* the endpoint requests of a poll over ids: pending payments, payment
\* history and counters of each location, in the order of the list
PipelineOf(ids) ==
    [k \in 1..(3 * Len(ids)) |->
        [kind |-> <<"pending", "history", "counters">>[((k - 1) % 3) + 1],
         loc |-> ids[((k - 1) \div 3) + 1]]]

\* the stage of the pipeline a request belongs to
StageOf(kind) ==
    CASE kind = "login_get" -> 1
      [] kind = "login_post" -> 2
      [] kind = "dashboard" -> 3
      [] OTHER -> 4

\* C17: the requests of a get_data() are the login GET and POST (in flight
\* only while the client is not authenticated), then at most one dashboard
\* request (in flight only while the location list is empty), then the
\* pending-payments, payment-history and counters request of each location
\* in list order; the request in flight is the next one of that sequence,
\* no request is sent twice, and a poll that returns with locations has
\* sent all 3N endpoint requests.
C17_SequentialPipeline ==
    call = "get_data" =>
        /\ \A i, j \in 1..Len(log) : i < j => StageOf(log[i].kind) <= StageOf(log[j].kind)
        /\ \A kind \in {"login_get", "login_post", "dashboard"} : Len(Entries(kind)) <= 1
        /\ Entries("login_post") # <<>> => Entries("login_get") # <<>>
        /\ pc \in {"login_get", "login_post"} => ~authenticated
        /\ ~authenticated => (pc = "login_get" \/ Entries("login_get") # <<>>)
        /\ pc = "dashboard" => location_ids = <<>>
        /\ pc # "idle" => \A i \in 1..Len(log) : StageOf(log[i].kind) <= StageOf(pc)
        /\ LET sent == [i \in 1..Len(EndpointEntries) |->
                           [kind |-> EndpointEntries[i].kind, loc |-> EndpointEntries[i].loc]]
               n == Len(sent)
               pipeline == PipelineOf(location_ids)
           IN  /\ n <= Len(pipeline)
               /\ sent = SubSeq(pipeline, 1, n)
               /\ pc \in EndpointKinds =>
                     /\ n < Len(pipeline)
                     /\ pipeline[n + 1] = [kind |-> pc, loc |-> location_ids[idx]]
               /\ (pc = "idle" /\ result.outcome = "returned") => n = Len(pipeline)

\* a poll that logged in, discovered two locations and sent the six
\* endpoint requests, one of which failed, has returned
C17_Witness ==
    /\ ReturnedFrom("get_data")
    /\ Len(location_ids) = 2
    /\ Len(log) = 9
    /\ \E i \in 4..9 : ~FetchSucceeded(log[i])

\* a step taken while the dashboard request or an endpoint request is in
\* flight leaves the session store alone
FetchStepKeepsSession ==
    (pc \in {"dashboard"} \cup EndpointKinds) =>
        (cookies' = cookies /\ authenticated' = authenticated)

\* C18: the step that consumes the answer of the dashboard request or of an
\* endpoint request leaves the cookie mapping and the authenticated flag as
\* they were, whether the request failed or succeeded and whatever cookies
\* the answer carries.
C18_FetchersKeepSession == [][FetchStepKeepsSession]_vars

\* a poll whose dashboard answer and whose failed and successful endpoint
\* answers carried a cookie has returned with only the login's cookie
C18_Witness ==
    /\ ReturnedFrom("get_data")
    /\ authenticated
    /\ cookies = SessionCookie
    /\ \E i \in 1..Len(log) :
          log[i].kind = "dashboard" /\ log[i].resp.cookies = StrayCookie
    /\ \E i \in 1..Len(log) :
          /\ log[i].kind \in EndpointKinds
          /\ log[i].resp.status = 403
          /\ log[i].resp.cookies = StrayCookie
    /\ \E i \in 1..Len(log) :
          /\ log[i].kind \in EndpointKinds
          /\ log[i].resp.status = 200
          /\ log[i].resp.cookies = StrayCookie

\* a step keeps a true flag true, and a get_data(), get_locations() or
\* get_payment_history() called on an authenticated client sends no login
\* request
FlagStaysAndNoLogin ==
    /\ authenticated => authenticated'
    /\ (authenticated /\ call' # "authenticate") =>
          pc' \notin {"login_get", "login_post"}

\* C19: once the authenticated flag is true no step makes it false (not a
\* later authenticate() that fails, not a failed dashboard or endpoint
\* request), and from then on get_data(), get_locations() and
\* get_payment_history() send no login request.
C19_FlagLatched == [][FlagStaysAndNoLogin]_vars

\* an authenticated client has returned from a poll that sent no login
\* request and in which every endpoint request failed
C19_Witness ==
    /\ ReturnedFrom("get_data")
    /\ authenticated
    /\ EndpointEntries # <<>>
    /\ \A i \in 1..Len(log) :
          log[i].kind \in EndpointKinds /\ ~FetchSucceeded(log[i])

\* a step from a state with a non-empty location list keeps the list and
\* the metadata, sends no dashboard request, and a Snapshot it returns has
\* the ids of the list as its location keys
ListStaysAndNoDiscovery ==
    location_ids # <<>> =>
        /\ location_ids' = location_ids
        /\ location_info' = location_info
        /\ pc' # "dashboard"
        /\ (pc' = "idle" /\ result'.op = "get_data" /\ result'.outcome = "returned") =>
              DOMAIN result'.value.locations = Range(location_ids)

\* C20: once the location list is non-empty no step changes it or the
\* location metadata, no call sends a dashboard request, and every
\* Snapshot returned from then on has the ids of the list as its keys.
C20_LocationsLatched == [][ListStaysAndNoDiscovery]_vars

\* a poll over a latched list of two locations, which sent neither a login
\* nor a dashboard request, has returned
C20_Witness ==
    /\ ReturnedFrom("get_data")
    /\ Len(location_ids) = 2
    /\ Len(log) = 6
    /\ DOMAIN result.value.locations = Range(location_ids)

\* a step of async_setup_entry that aborts does so out of the initial
\* authenticate(), which raised; one that follows an authenticate() that
\* returned goes to the first refresh, whose get_data() sends a login
\* request when authenticate() returned false and none when it returned true
SetupStepAbortsOnlyAtLogin ==
    /\ (setup' = "not_ready" /\ setup # "not_ready") =>
          (setup = "authenticate" /\ result.outcome = "raised")
    /\ (setup = "authenticate" /\ setup' # setup) =>
          IF result.outcome = "raised"
          THEN setup' = "not_ready"
          ELSE /\ setup' = "first_refresh"
               /\ call' = "get_data"
               /\ authenticated = result.value
               /\ pc' = "login_get" <=> result.value = FALSE

\* C21 as stated: async_setup_entry aborts with ConfigEntryNotReady exactly
\* when the initial authenticate() raises; when that call returns false,
\* setup goes on to the first refresh, whose get_data() performs a second
\* login handshake.
C21_AbortsExactlyWhenLoginRaises == [][SetupStepAbortsOnlyAtLogin]_vars

\* the same step, with the abort out of the first refresh: get_data() raised,
\* and it raised out of the second login handshake
SetupStep ==
    /\ (setup' = "not_ready" /\ setup # "not_ready") =>
          /\ result.outcome = "raised"
          /\ \/ setup = "authenticate"
             \/ setup = "first_refresh" /\ ~authenticated /\ AuthenticateRaised
    /\ (setup = "authenticate" /\ setup' # setup) =>
          IF result.outcome = "raised"
          THEN setup' = "not_ready"
          ELSE /\ setup' = "first_refresh"
               /\ call' = "get_data"
               /\ authenticated = result.value
               /\ pc' = "login_get" <=> result.value = FALSE
    /\ (setup = "first_refresh" /\ setup' # setup) =>
          setup' = IF result.outcome = "raised" THEN "not_ready" ELSE "loaded"

\* C21, amended: async_setup_entry aborts with ConfigEntryNotReady exactly
\* when the initial authenticate() raises or the get_data() of the first
\* coordinator refresh raises, which it does only out of its own login
\* handshake; when the initial call returns false, setup goes on to the first
\* refresh, whose get_data() performs a second login handshake because the
\* client is still not authenticated.
C21_AbortsWhenLoginOrFirstRefreshRaises == [][SetupStep]_vars

\* setup has aborted out of the first refresh: the initial authenticate()
\* had returned false and the second login handshake raised
C21_Witness ==
    /\ setup = "not_ready"
    /\ result.op = "get_data"
    /\ Entries("login_get") # <<>>

====
